---- MODULE Spec2Model ----
(***************************************************************************)
(* Model of the Next.js demo application: the auth-section layout with its *)
(* active-link highlighter (a client component re-rendered on navigation), *)
(* and the asynchronous course-details and review pages (server components *)
(* that await their route parameters).                                     *)
(*                                                                         *)
(* Strings that the code inspects character by character (paths, ids) are  *)
(* sequences of one-character strings; strings the code only passes along  *)
(* (link names, class names, children) are TLA+ strings.  The home page and *)
(* the blog page are static pages whose links a user can follow.           *)
(***************************************************************************)
EXTENDS Integers, Sequences, FiniteSets, TLC

VARIABLES pathName, children, navLinks, authOut, authSnap, reqs, site

vars == <<pathName, children, navLinks, authOut, authSnap, reqs, site>>

(***************************************************************************)
(* Bounds of the model.                                                    *)
(***************************************************************************)
\* longest suffix appended to a base path when enumerating current paths
MaxSuffix == 2
\* number of page requests that can be in flight at the same time
MaxReq == 2
\* longest candidate list handed to the highlighter when it is checked as a
\* function of arbitrary candidates
MaxLinks == 2

(***************************************************************************)
(* Strings.                                                                *)
(***************************************************************************)
Root == <<"/">>

\* (mutant) the receiver and the argument of startsWith change places
StartsWithSwapped(s, p) == Len(s) <= Len(p) /\ SubSeq(p, 1, Len(s)) = s

\* String.prototype.startsWith
StartsWith(s, p) == Len(p) <= Len(s) /\ SubSeq(s, 1, Len(p)) = p

DigitChars == <<"0", "1", "2", "3", "4", "5", "6", "7", "8", "9">>

IsDigit(c) == \E d \in 1..Len(DigitChars) : DigitChars[d] = c

DigitValue(c) == (CHOOSE d \in 1..Len(DigitChars) : DigitChars[d] = c) - 1

\* the value of the first k characters of s, all decimal digits
RECURSIVE Decimal(_, _)
Decimal(s, k) ==
  IF k = 0 THEN 0 ELSE Len(DigitChars) * Decimal(s, k - 1) + DigitValue(s[k])

\* parseInt(s, 10) for a string without white space: an optional sign, then
\* the longest run of decimal digits; NaN when that run is empty
ParseInt(s) ==
  LET signed == Len(s) >= 1 /\ s[1] \in {"-", "+"}
      body == IF signed THEN Tail(s) ELSE s
      k == CHOOSE n \in 0..Len(body) :
             /\ \A i \in 1..n : IsDigit(body[i])
             /\ (n = Len(body) \/ ~IsDigit(body[n + 1]))
      magnitude == Decimal(body, k)
  IN  IF k = 0 THEN [nan |-> TRUE, val |-> 0]
      ELSE [nan |-> FALSE,
            val |-> IF signed /\ s[1] = "-" THEN 0 - magnitude ELSE magnitude]

UpperChars ==
  <<"A", "B", "C", "D", "E", "F", "G", "H", "I", "J", "K", "L", "M",
    "N", "O", "P", "Q", "R", "S", "T", "U", "V", "W", "X", "Y", "Z">>

LowerChars ==
  <<"a", "b", "c", "d", "e", "f", "g", "h", "i", "j", "k", "l", "m",
    "n", "o", "p", "q", "r", "s", "t", "u", "v", "w", "x", "y", "z">>

\* String.prototype.toLowerCase on ASCII text
ToLowerCase(s) ==
  [i \in 1..Len(s) |->
     IF \E u \in 1..Len(UpperChars) : UpperChars[u] = s[i]
     THEN LowerChars[CHOOSE u \in 1..Len(UpperChars) : UpperChars[u] = s[i]]
     ELSE s[i]]

\* all sequences over S of length at most n
RECURSIVE SeqsUpTo(_, _)
SeqsUpTo(S, n) ==
  IF n = 0 THEN {<<>>}
  ELSE LET shorter == SeqsUpTo(S, n - 1)
       IN  shorter \cup {Append(s, c) : s \in {t \in shorter : Len(t) = n - 1}, c \in S}

\* a URL path as the router reports it: begins with "/", has no empty
\* segment and no trailing "/" unless it is the root path itself
WellFormedPath(p) ==
  /\ Len(p) >= 1
  /\ p[1] = "/"
  /\ \A i \in 1..(Len(p) - 1) : ~(p[i] = "/" /\ p[i + 1] = "/")
  /\ (Len(p) > 1 => p[Len(p)] # "/")

RegisterHref == <<"/", "r", "e", "g", "i", "s", "t", "e", "r">>
LoginHref == <<"/", "l", "o", "g", "i", "n">>
ForgotHref == <<"/", "f", "o", "r", "g", "o", "t", "P", "a", "s", "s", "w", "o", "r", "d">>

\* the paths a navigation can lead to: the root, the link targets, a
\* truncation and a case variant of a link target, each followed by a short
\* suffix with or without a "/" separator
BasePaths ==
  { Root, RegisterHref, LoginHref, ForgotHref,
    <<"/", "l", "o", "g">>,
    <<"/", "f", "o", "r", "g", "o", "t", "p", "a", "s", "s", "w", "o", "r", "d">> }

Suffixes == SeqsUpTo({"/", "a"}, MaxSuffix)

Paths == {p \in {b \o s : b \in BasePaths, s \in Suffixes} : WellFormedPath(p)}

\* what the layout is given to wrap (the children prop, opaque to the layout)
Children == {"RegisterPage", "LoginPage"}

(***************************************************************************)
(* The auth layout.                                                        *)
(***************************************************************************)
\* (mutant) the third descriptor is a copy of the second with only its name changed
NavLinksCopyPaste ==
  << [name |-> "Register", href |-> RegisterHref],
     [name |-> "Login", href |-> LoginHref],
     [name |-> "Forgot-Password", href |-> LoginHref] >>

NavLinks ==
  << [name |-> "Register", href |-> RegisterHref],
     [name |-> "Login", href |-> LoginHref],
     [name |-> "Forgot-Password", href |-> ForgotHref] >>

ActiveClass == "font-bold mr-4"
InactiveClass == "text-blue-500 mr-4"

NoRender == [rendered |-> FALSE]

\* (mutant) exact comparison only: the prefix test is lost
IsActiveExactOnly(path, link) == path = link.href

\* (mutant) the root path is not excluded from the prefix test
IsActiveRootPrefix(path, link) ==
  path = link.href \/ StartsWith(path, link.href)

\* (mutant) || written for &&: every link but a root link is active
IsActiveOrForAnd(path, link) ==
  path = link.href \/ StartsWith(path, link.href) \/ link.href # Root

\* (mutant) the prefix must end at a path segment
IsActiveBySegment(path, link) ==
  path = link.href \/ (StartsWith(path, link.href \o <<"/">>) /\ link.href # Root)

\* (mutant) both sides are lower-cased before they are compared
IsActiveIgnoreCase(path, link) ==
  \/ ToLowerCase(path) = ToLowerCase(link.href)
  \/ (StartsWith(ToLowerCase(path), ToLowerCase(link.href)) /\ link.href # Root)

\* const isActive = pathName === link.href ||
\*                  (pathName.startsWith(link.href) && link.href !== "/")
IsActive(path, link) ==
  path = link.href \/ (StartsWith(path, link.href) /\ link.href # Root)

\* (mutant) the active style is added to the base style instead of replacing it
RenderLinkKeepsBaseStyle(path, link) ==
  [ className |-> IF IsActive(path, link) THEN "font-bold text-blue-500 mr-4"
                  ELSE InactiveClass,
    key |-> link.name,
    href |-> link.href,
    text |-> link.name ]

\* one <Link className key href>{link.name}</Link>
RenderLink(path, link) ==
  [ className |-> IF IsActive(path, link) THEN ActiveClass ELSE InactiveClass,
    key |-> link.name,
    href |-> link.href,
    text |-> link.name ]

\* (mutant) a link that was active in the previous render stays active
RenderAuthLayoutSticky(path, links, kids) ==
  [ rendered |-> TRUE,
    pathName |-> path,
    links |-> [i \in 1..Len(links) |->
                 IF /\ authOut.rendered
                    /\ i \in DOMAIN authOut.links
                    /\ authOut.links[i].className = ActiveClass
                 THEN [RenderLink(path, links[i]) EXCEPT !.className = ActiveClass]
                 ELSE RenderLink(path, links[i])],
    children |-> kids ]

\* (mutant) the link of the page the user is on is left out of the menu
RenderAuthLayoutHidesActive(path, links, kids) ==
  [ rendered |-> TRUE,
    pathName |-> path,
    links |-> LET shown == SelectSeq(links, LAMBDA l : ~IsActive(path, l))
              IN  [i \in 1..Len(shown) |-> RenderLink(path, shown[i])],
    children |-> kids ]

\* <div>{navLinks.map(...)}{children}</div>, with the path it was rendered for
RenderAuthLayout(path, links, kids) ==
  [ rendered |-> TRUE,
    pathName |-> path,
    links |-> [i \in 1..Len(links) |-> RenderLink(path, links[i])],
    children |-> kids ]

\* (mutant) navLinks.reverse().map(...): the list is reversed in place
AuthLayoutReversesLinks ==
  /\ navLinks' = [i \in 1..Len(navLinks) |-> navLinks[Len(navLinks) + 1 - i]]
  /\ authOut' = RenderAuthLayout(pathName, navLinks', children)
  /\ \/ authSnap' = authSnap
     \/ authSnap' = authOut
  /\ UNCHANGED <<pathName, children, reqs, site>>

\* a render of AuthLayout: reads usePathname(), maps navLinks, returns the
\* element; authSnap keeps an earlier render for comparison
AuthLayout ==
  /\ authOut' = RenderAuthLayout(pathName, navLinks, children)
  /\ \/ authSnap' = authSnap
     \/ authSnap' = authOut
  /\ UNCHANGED <<pathName, children, navLinks, reqs, site>>

\* the router moves to another path: usePathname() reports it from now on
Navigate(p) ==
  /\ pathName' = p
  /\ UNCHANGED <<children, navLinks, authOut, authSnap, reqs, site>>

(***************************************************************************)
(* The static pages and the links a user can follow.                       *)
(***************************************************************************)
BlogHref == <<"/", "b", "l", "o", "g">>
CoursesHref == <<"/", "c", "o", "u", "r", "s", "e", "s">>

NoPage == [rendered |-> FALSE]

\* (mutant) the first link of the home page points at /blogs
HomeLinksMistyped ==
  << [href |-> BlogHref \o <<"s">>, text |-> "To BlogPage"],
     [href |-> CoursesHref, text |-> "To CoursesPage"] >>

\* the <Link>s of Home, in order (the emoji of the link texts left out)
HomeLinks ==
  << [href |-> BlogHref, text |-> "To BlogPage"],
     [href |-> CoursesHref, text |-> "To CoursesPage"] >>

\* (mutant) the link of the blog page points at the blog page itself
BlogLinksToSelf == << [href |-> BlogHref, text |-> "Back Home"] >>

\* the <Link> of the blog page (the emoji of the link text left out)
BlogLinks == << [href |-> Root, text |-> "Back Home"] >>

\* Home(): <><h1>Welcome Home!</h1><Link/><br/><Link/></>, rendered at "/"
Home ==
  /\ pathName = Root
  /\ site' = [rendered |-> TRUE, pathName |-> pathName, heading |-> "Welcome Home!",
              links |-> HomeLinks]
  /\ UNCHANGED <<pathName, children, navLinks, authOut, authSnap, reqs>>

\* the route the blog page is served at
BlogRoute == BlogHref

\* page() of the blog route: <><h1>Blog Page</h1><Link/></>, rendered at "/blog"
BlogPage ==
  /\ pathName = BlogRoute
  /\ site' = [rendered |-> TRUE, pathName |-> pathName, heading |-> "Blog Page",
              links |-> BlogLinks]
  /\ UNCHANGED <<pathName, children, navLinks, authOut, authSnap, reqs>>

\* the hrefs of the links on screen for the current path: those of the
\* static page and those of the auth layout, once rendered for this path
LinksOnScreen ==
  (IF site.rendered /\ site.pathName = pathName
   THEN {site.links[i].href : i \in 1..Len(site.links)} ELSE {})
  \cup
  (IF authOut.rendered /\ authOut.pathName = pathName
   THEN {authOut.links[i].href : i \in 1..Len(authOut.links)} ELSE {})

\* the user clicks a <Link> on screen: the router moves to its href
FollowLink(href) ==
  /\ href \in LinksOnScreen
  /\ Navigate(href)

(***************************************************************************)
(* The asynchronous pages.  A request occupies a slot: the page function   *)
(* is called with the promise of its route parameters, suspends at the     *)
(* await, and returns its element when the promise has resolved.           *)
(***************************************************************************)
Slots == 1..MaxReq

\* route parameters the framework can supply
CourseIds == { <<"j", "s">>, <<"1", "0", "0", "1">> }

ReviewIds ==
  { <<"0">>, <<"1", "0", "0", "0">>, <<"1", "0", "0", "1">>, <<"-", "5">>,
    <<"a", "b", "c">>, <<"1", "2", "a">>, <<"1", "0", "0", "1", "a">> }

CourseParams == {[courseId |-> c] : c \in CourseIds}
ReviewParams == {[courseId |-> c, reviewId |-> v] : c \in CourseIds, v \in ReviewIds}

Idle == [pc |-> "idle"]

\* <h1>Course details. COURSE_ID:{courseId}</h1>
CourseElement(params) ==
  [tag |-> "h1", children |-> <<"Course details. COURSE_ID:", params.courseId>>]

\* (mutant) the two route parameters change places in the heading
ReviewElementSwapped(params) ==
  [tag |-> "h1",
   children |-> <<"Review: ", params.courseId, " for course: ", params.reviewId>>]

\* <h1>Review: {reviewId} for course: {courseId}</h1>
ReviewElement(params) ==
  [tag |-> "h1",
   children |-> <<"Review: ", params.reviewId, " for course: ", params.courseId>>]

\* the request a page leaves behind when it returns an element
Rendered(req, element) ==
  [pc |-> "done", page |-> req.page, params |-> req.params, awaits |-> req.awaits,
   out |-> element]

\* the request a page leaves behind when it signals not-found
NotFound(req) ==
  [pc |-> "not-found", page |-> req.page, params |-> req.params, awaits |-> req.awaits]

\* (mutant) try { await params } catch { return <h1>...</h1> }: a fallback is rendered
FailedRendersFallback(req) ==
  Rendered(req, [tag |-> "h1", children |-> <<"Something went wrong">>])

\* the request a page leaves behind when its await throws: the page has no
\* try/catch, so the rejection leaves the function and nothing is returned
Failed(req) ==
  [pc |-> "failed", page |-> req.page, params |-> req.params, awaits |-> req.awaits]

\* (mutant) the course-details page accepts numeric course ids only
CourseReturnNumericOnly(req) ==
  IF \A i \in 1..Len(req.params.courseId) : IsDigit(req.params.courseId[i])
  THEN Rendered(req, CourseElement(req.params))
  ELSE NotFound(req)

\* the course-details page after its await: const courseId = (...).courseId; return <h1>
CourseReturn(req) == Rendered(req, CourseElement(req.params))

\* (mutant) if (!(parseInt(reviewId) <= 1000)) notFound(): NaN compares false
ReviewReturnRejectsNaN(req) ==
  LET n == ParseInt(req.params.reviewId)
  IN  IF ~n.nan /\ n.val <= 1000
      THEN Rendered(req, ReviewElement(req.params))
      ELSE NotFound(req)

\* (mutant) const { courseId } = await params; const { reviewId } = await params
ReviewReturnAwaitsTwice(req) ==
  IF req.awaits = 1
  THEN [req EXCEPT !.awaits = 2]
  ELSE Rendered(req, ReviewElement(req.params))

\* (mutant) the awaited parameters are kept in a module-level variable, which
\* a call suspended at its await has overwritten in the meantime
ReviewReturnSharedParams(req) ==
  LET later == {q \in 1..MaxReq :
                  /\ reqs[q].pc = "awaiting"
                  /\ reqs[q].page = "review"
                  /\ reqs[q].params # req.params}
  IN  IF later = {}
      THEN Rendered(req, ReviewElement(req.params))
      ELSE Rendered(req, ReviewElement(reqs[CHOOSE q \in later : TRUE].params))

\* the review page after its await: const { courseId, reviewId } = ...; return <h1>
ReviewReturn(req) == Rendered(req, ReviewElement(req.params))

\* page({ params }) of the course-details route is called and reaches its await
CallCoursePage(r, params) ==
  /\ reqs[r].pc = "idle"
  /\ reqs' = [reqs EXCEPT ![r] =
                [pc |-> "awaiting", page |-> "course", params |-> params, awaits |-> 1]]
  /\ UNCHANGED <<pathName, children, navLinks, authOut, authSnap, site>>

\* the awaited parameters resolve and the course-details page returns
ResumeCoursePage(r) ==
  /\ reqs[r].pc = "awaiting"
  /\ reqs[r].page = "course"
  /\ reqs' = [reqs EXCEPT ![r] = CourseReturn(reqs[r])]
  /\ UNCHANGED <<pathName, children, navLinks, authOut, authSnap, site>>

\* the awaited parameters of the course-details page reject: the await throws
RejectCoursePage(r) ==
  /\ reqs[r].pc = "awaiting"
  /\ reqs[r].page = "course"
  /\ reqs' = [reqs EXCEPT ![r] = Failed(reqs[r])]
  /\ UNCHANGED <<pathName, children, navLinks, authOut, authSnap, site>>

\* page({ params }) of the review route is called and reaches its await
CallReviewPage(r, params) ==
  /\ reqs[r].pc = "idle"
  /\ reqs' = [reqs EXCEPT ![r] =
                [pc |-> "awaiting", page |-> "review", params |-> params, awaits |-> 1]]
  /\ UNCHANGED <<pathName, children, navLinks, authOut, authSnap, site>>

\* (mutant) the heading carries a value drawn at render time (a random key)
ResumeReviewPageRandomKey(r) ==
  /\ reqs[r].pc = "awaiting"
  /\ reqs[r].page = "review"
  /\ \E key \in {"k1", "k2"} :
       reqs' = [reqs EXCEPT ![r] =
                  Rendered(reqs[r],
                           [tag |-> "h1",
                            children |-> Append(ReviewElement(reqs[r].params).children, key)])]
  /\ UNCHANGED <<pathName, children, navLinks, authOut, authSnap, site>>

\* the awaited parameters resolve and the review page returns
ResumeReviewPage(r) ==
  /\ reqs[r].pc = "awaiting"
  /\ reqs[r].page = "review"
  /\ reqs' = [reqs EXCEPT ![r] = ReviewReturn(reqs[r])]
  /\ UNCHANGED <<pathName, children, navLinks, authOut, authSnap, site>>

\* the awaited parameters of the review page reject: the await throws
RejectReviewPage(r) ==
  /\ reqs[r].pc = "awaiting"
  /\ reqs[r].page = "review"
  /\ reqs' = [reqs EXCEPT ![r] = Failed(reqs[r])]
  /\ UNCHANGED <<pathName, children, navLinks, authOut, authSnap, site>>

NoReqs == [r \in Slots |-> Idle]

(***************************************************************************)
(* Spec: the auth layout in a browser session.                             *)
(***************************************************************************)
Init ==
  /\ pathName \in Paths
  /\ children \in Children
  /\ navLinks = NavLinks
  /\ authOut = NoRender
  /\ authSnap = NoRender
  /\ reqs = NoReqs
  /\ site = NoPage

Next ==
  \/ \E p \in Paths : Navigate(p)
  \/ AuthLayout

Spec == Init /\ [][Next]_vars

(***************************************************************************)
(* SpecPages: the asynchronous pages serving requests.                     *)
(***************************************************************************)
InitPages ==
  /\ pathName = Root
  /\ children = "LoginPage"
  /\ navLinks = NavLinks
  /\ authOut = NoRender
  /\ authSnap = NoRender
  /\ reqs = NoReqs
  /\ site = NoPage

NextPages ==
  \/ \E r \in Slots, params \in CourseParams : CallCoursePage(r, params)
  \/ \E r \in Slots : ResumeCoursePage(r)
  \/ \E r \in Slots, params \in ReviewParams : CallReviewPage(r, params)
  \/ \E r \in Slots : ResumeReviewPage(r)
  \/ \E r \in Slots : RejectCoursePage(r)
  \/ \E r \in Slots : RejectReviewPage(r)

SpecPages == InitPages /\ [][NextPages]_vars

(***************************************************************************)
(* SpecActive: the highlighter as a function of an arbitrary current path  *)
(* and an arbitrary candidate list (the root path among the candidates).   *)
(***************************************************************************)
CandidateLinks ==
  { [name |-> "Home", href |-> Root],
    [name |-> "Login", href |-> LoginHref],
    [name |-> "Register", href |-> RegisterHref],
    [name |-> "Log", href |-> <<"/", "l", "o", "g">>] }

\* the candidate lists: no candidate twice
CandidateLists ==
  {l \in SeqsUpTo(CandidateLinks, MaxLinks) :
     Len(l) >= 1 /\ \A i, j \in 1..Len(l) : i # j => l[i] # l[j]}

InitActive ==
  /\ pathName \in Paths
  /\ children = "LoginPage"
  /\ navLinks \in CandidateLists
  /\ authOut = NoRender
  /\ authSnap = NoRender
  /\ reqs = NoReqs
  /\ site = NoPage

NextActive == AuthLayout

SpecActive == InitActive /\ [][NextActive]_vars

(***************************************************************************)
(* SpecApp: the layout in a browser session next to the pages serving      *)
(* requests, over a few paths and route parameters.                        *)
(***************************************************************************)
AppPaths == {Root, LoginHref, LoginHref \o <<"/", "a">>}

AppCourseParams == {[courseId |-> <<"j", "s">>]}

AppReviewParams ==
  {[courseId |-> <<"j", "s">>, reviewId |-> v] : v \in {<<"1", "0", "0", "0">>, <<"a", "b", "c">>}}

InitApp ==
  /\ pathName \in AppPaths
  /\ children \in Children
  /\ navLinks = NavLinks
  /\ authOut = NoRender
  /\ authSnap = NoRender
  /\ reqs = NoReqs
  /\ site = NoPage

NextApp ==
  \/ \E p \in AppPaths : Navigate(p)
  \/ AuthLayout
  \/ \E r \in Slots, params \in AppCourseParams : CallCoursePage(r, params)
  \/ \E r \in Slots : ResumeCoursePage(r)
  \/ \E r \in Slots, params \in AppReviewParams : CallReviewPage(r, params)
  \/ \E r \in Slots : ResumeReviewPage(r)

SpecApp == InitApp /\ [][NextApp]_vars

(***************************************************************************)
(* SpecSite: a browser session on the static pages and the auth section:   *)
(* the user enters the URL of a route or follows a link on screen, and the *)
(* page of the current route renders.                                      *)
(***************************************************************************)
\* the segments of a path: "/courses/js" is <<"courses", "js">>, "/" is <<>>
RECURSIVE SplitFrom(_, _, _)
SplitFrom(p, i, acc) ==
  IF i > Len(p) THEN acc
  ELSE IF p[i] = "/" THEN SplitFrom(p, i + 1, Append(acc, <<>>))
  ELSE SplitFrom(p, i + 1, [acc EXCEPT ![Len(acc)] = Append(@, p[i])])

Segments(p) == IF p = Root THEN <<>> ELSE SplitFrom(p, 1, <<>>)

Static(text) == [dynamic |-> FALSE, text |-> text]
Dynamic == [dynamic |-> TRUE, text |-> <<>>]

\* the URL paths the application exposes: /, /blog, /courses,
\* /courses/{courseId}, /courses/{courseId}/reviews/{reviewId}, /register,
\* /login, /forgotPassword
ExposedRoutes ==
  { <<>>,
    <<Static(Tail(BlogHref))>>,
    <<Static(Tail(CoursesHref))>>,
    <<Static(Tail(CoursesHref)), Dynamic>>,
    <<Static(Tail(CoursesHref)), Dynamic, Static(<<"r", "e", "v", "i", "e", "w", "s">>), Dynamic>>,
    <<Static(Tail(RegisterHref))>>,
    <<Static(Tail(LoginHref))>>,
    <<Static(Tail(ForgotHref))>> }

\* the router finds a route for the path
IsExposed(path) ==
  /\ WellFormedPath(path)
  /\ \E route \in ExposedRoutes :
       /\ Len(Segments(path)) = Len(route)
       /\ \A i \in 1..Len(route) :
            IF route[i].dynamic THEN Segments(path)[i] # <<>>
            ELSE Segments(path)[i] = route[i].text

\* the routes the auth layout wraps
AuthRoutes == {RegisterHref, LoginHref, ForgotHref}

\* the URLs a user enters: one path of every exposed route
EntryPaths ==
  { Root, BlogHref, CoursesHref, RegisterHref, LoginHref, ForgotHref,
    CoursesHref \o <<"/", "j", "s">>,
    CoursesHref \o <<"/", "j", "s", "/", "r", "e", "v", "i", "e", "w", "s", "/", "7">> }

\* the user enters a URL in the address bar
EnterUrl(p) == Navigate(p)

\* the auth layout renders on the routes it wraps
AuthLayoutOnRoute == pathName \in AuthRoutes /\ AuthLayout

InitSite ==
  /\ pathName \in EntryPaths
  /\ children \in Children
  /\ navLinks = NavLinks
  /\ authOut = NoRender
  /\ authSnap = NoRender
  /\ reqs = NoReqs
  /\ site = NoPage

NextSite ==
  \/ \E p \in EntryPaths : EnterUrl(p)
  \/ \E href \in LinksOnScreen : FollowLink(href)
  \/ Home
  \/ BlogPage
  \/ AuthLayoutOnRoute

SpecSite == InitSite /\ [][NextSite]_vars

(***************************************************************************)
(* Properties of the links between the pages (SpecSite).                   *)
(***************************************************************************)
\* the hrefs of every link rendered so far and still held in the state
RenderedHrefs ==
  (IF site.rendered THEN {site.links[i].href : i \in 1..Len(site.links)} ELSE {})
  \cup
  (IF authOut.rendered THEN {authOut.links[i].href : i \in 1..Len(authOut.links)} ELSE {})

\* C21: every link target rendered by the home page, the blog page and the
\* auth layout is one of the exposed URL paths, and following a link on
\* screen always leads to an exposed path.
C21_LinksLeadToExposedPaths ==
  /\ [](\A href \in RenderedHrefs : IsExposed(href))
  /\ [][(\E href \in LinksOnScreen : FollowLink(href)) => IsExposed(pathName')]_vars

C21_Witness ==
  /\ site.rendered /\ site.pathName = Root
  /\ authOut.rendered
  /\ pathName = CoursesHref
  /\ RenderedHrefs = {BlogHref, CoursesHref, RegisterHref, LoginHref, ForgotHref}

\* C22: the home page has a link to /blog and the blog page a link to /: on
\* either page, once it is rendered, the user can follow a link to the
\* other, and on /blog the blog page can always render, so the way back to
\* the home page is never closed.
C22_HomeAndBlogLinkEachOther ==
  /\ (site.rendered /\ site.pathName = <<"/">>)
       => \E i \in 1..Len(site.links) : site.links[i].href = <<"/", "b", "l", "o", "g">>
  /\ (site.rendered /\ site.pathName = <<"/", "b", "l", "o", "g">>)
       => \E i \in 1..Len(site.links) : site.links[i].href = <<"/">>
  /\ (site.rendered /\ site.pathName = pathName /\ pathName = <<"/">>)
       => ENABLED FollowLink(<<"/", "b", "l", "o", "g">>)
  /\ (site.rendered /\ site.pathName = pathName /\ pathName = <<"/", "b", "l", "o", "g">>)
       => ENABLED FollowLink(<<"/">>)
  /\ pathName = <<"/", "b", "l", "o", "g">> => ENABLED BlogPage
  /\ pathName = <<"/">> => ENABLED Home

\* the user is back on "/" with the blog page still on screen: the link of
\* the blog page has just been followed
C22_Witness ==
  /\ pathName = Root
  /\ site.rendered /\ site.pathName = BlogHref
  /\ Root \in {site.links[i].href : i \in 1..Len(site.links)}

(***************************************************************************)
(* Properties of the active-link highlighter.                              *)
(***************************************************************************)
\* p is one of the prefixes of s
IsPrefixOf(p, s) == \E k \in 0..Len(s) : SubSeq(s, 1, k) = p

MarkedActive(out, i) == out.links[i].className = ActiveClass

ActiveSet(out) == {i \in DOMAIN out.links : MarkedActive(out, i)}

\* C1: for every current path and every candidate link with path P, the
\* candidate is marked active if and only if the current path equals P, or
\* the current path starts with P and P is not "/".
C1_ActiveIffEqualOrPrefix ==
  authOut.rendered =>
    \A i \in 1..Len(navLinks) :
      MarkedActive(authOut, i)
        <=> \/ authOut.pathName = navLinks[i].href
            \/ /\ IsPrefixOf(navLinks[i].href, authOut.pathName)
               /\ navLinks[i].href # <<"/">>

C1_Witness ==
  /\ authOut.rendered
  /\ authOut.pathName = LoginHref \o <<"/", "a">>
  /\ \E i, j \in 1..Len(navLinks) :
       /\ navLinks[i].href = LoginHref /\ MarkedActive(authOut, i)
       /\ navLinks[j].href = RegisterHref /\ ~MarkedActive(authOut, j)

\* C4: a candidate whose path is the root path "/" is active exactly when
\* the current path is "/": prefix matching never activates it.
C4_RootOnlyByEquality ==
  authOut.rendered =>
    \A i \in 1..Len(navLinks) :
      navLinks[i].href = <<"/">>
        => (MarkedActive(authOut, i) <=> authOut.pathName = <<"/">>)

C4_Witness ==
  /\ authOut.rendered
  /\ authOut.pathName = LoginHref
  /\ \E i, j \in 1..Len(navLinks) :
       /\ navLinks[i].href = <<"/">> /\ ~MarkedActive(authOut, i)
       /\ navLinks[j].href = LoginHref /\ MarkedActive(authOut, j)

\* the path neither equals nor starts with any candidate path
Unmatched(path) ==
  \A i \in 1..Len(navLinks) :
    path # navLinks[i].href /\ ~IsPrefixOf(navLinks[i].href, path)

\* C5: when the current path neither equals nor starts with any candidate
\* path, the render still completes, no candidate is marked active, and
\* every link is rendered, with the inactive style.
C5_UnmatchedPathAllInactive ==
  /\ Unmatched(pathName) => ENABLED AuthLayout
  /\ (authOut.rendered /\ Unmatched(authOut.pathName)) =>
       /\ ActiveSet(authOut) = {}
       /\ Len(authOut.links) = Len(navLinks)
       /\ \A i \in 1..Len(navLinks) :
            /\ authOut.links[i].className = InactiveClass
            /\ authOut.links[i].href = navLinks[i].href
            /\ authOut.links[i].text = navLinks[i].name

C5_Witness ==
  /\ authOut.rendered
  /\ authOut.pathName = <<"/", "l", "o", "g">>
  /\ Unmatched(authOut.pathName)
  /\ \A i \in 1..Len(navLinks) : authOut.links[i].className = InactiveClass

\* C6: a render of the auth layout leaves the navigation link list (names,
\* paths, order) and the current path as they were.
C6_RenderHasNoSideEffects ==
  [][AuthLayout => (navLinks' = navLinks /\ pathName' = pathName)]_vars

C6_Witness ==
  /\ authOut.rendered
  /\ authSnap.rendered
  /\ navLinks = NavLinks
  /\ pathName = authOut.pathName
  /\ ActiveSet(authOut) # {}

\* C8: the set of active links of a render depends on the current path
\* alone: a render for a path marks the same links as any earlier render for
\* that path, whatever was visited and rendered in between.
C8_ActiveSetDependsOnPathOnly ==
  (authOut.rendered /\ authSnap.rendered /\ authOut.pathName = authSnap.pathName)
    => ActiveSet(authOut) = ActiveSet(authSnap)

C8_Witness ==
  /\ authOut.rendered /\ authSnap.rendered
  /\ authOut.pathName = LoginHref /\ authSnap.pathName = LoginHref
  /\ pathName = Root
  /\ ActiveSet(authOut) = {2} /\ ActiveSet(authSnap) = {2}

\* C15: the navigation link list is fixed and well-shaped: exactly the three
\* descriptors Register -> /register, Login -> /login, Forgot-Password ->
\* /forgotPassword; every path non-empty and beginning with "/"; no two
\* descriptors with the same name or the same path.
C15_NavLinksFixedAndWellShaped ==
  /\ navLinks =
       << [name |-> "Register",
           href |-> <<"/", "r", "e", "g", "i", "s", "t", "e", "r">>],
          [name |-> "Login",
           href |-> <<"/", "l", "o", "g", "i", "n">>],
          [name |-> "Forgot-Password",
           href |-> <<"/", "f", "o", "r", "g", "o", "t", "P", "a", "s", "s", "w", "o", "r", "d">>] >>
  /\ \A i \in 1..Len(navLinks) :
       Len(navLinks[i].href) >= 1 /\ navLinks[i].href[1] = "/"
  /\ \A i, j \in 1..Len(navLinks) :
       i # j => (navLinks[i].name # navLinks[j].name /\ navLinks[i].href # navLinks[j].href)

C15_Witness ==
  /\ authOut.rendered /\ authSnap.rendered
  /\ authOut.pathName # authSnap.pathName
  /\ Len(navLinks) = 3
  /\ \A i \in 1..3 : authOut.links[i].href = navLinks[i].href

\* C16: with the fixed three-link list at most one link is active for any
\* current path, and no link path is a string prefix of another link path.
C16_AtMostOneActive ==
  /\ authOut.rendered => Cardinality(ActiveSet(authOut)) <= 1
  /\ \A i, j \in 1..Len(navLinks) :
       i # j => ~IsPrefixOf(navLinks[i].href, navLinks[j].href)

C16_Witness ==
  /\ authOut.rendered
  /\ authOut.pathName = RegisterHref \o <<"/", "a">>
  /\ ActiveSet(authOut) = {1}

\* C17: prefix matching is by raw string prefix: a current path that extends
\* a link path marks that link active whether or not the extension begins
\* with "/" (/logina exactly as /login/a).
C17_RawStringPrefix ==
  authOut.rendered =>
    \A i \in 1..Len(navLinks) :
      LET href == navLinks[i].href
          path == authOut.pathName
      IN  (Len(path) > Len(href) /\ SubSeq(path, 1, Len(href)) = href)
            => /\ path[Len(href) + 1] = "/" => MarkedActive(authOut, i)
               /\ path[Len(href) + 1] # "/" => MarkedActive(authOut, i)

C17_Witness ==
  /\ authOut.rendered /\ authSnap.rendered
  /\ authOut.pathName = <<"/", "l", "o", "g", "i", "n", "a">>
  /\ authSnap.pathName = <<"/", "l", "o", "g", "i", "n", "/", "a">>
  /\ ActiveSet(authOut) = {2} /\ ActiveSet(authSnap) = {2}

\* C18: path comparison is case-sensitive: a current path that matches a
\* link path only after lower-casing both (/forgotpassword against
\* /forgotPassword) does not mark that link active.
C18_CaseSensitive ==
  authOut.rendered =>
    \A i \in 1..Len(navLinks) :
      (/\ IsPrefixOf(ToLowerCase(navLinks[i].href), ToLowerCase(authOut.pathName))
       /\ ~IsPrefixOf(navLinks[i].href, authOut.pathName))
        => ~MarkedActive(authOut, i)

C18_Witness ==
  /\ authOut.rendered
  /\ authOut.pathName =
       <<"/", "f", "o", "r", "g", "o", "t", "p", "a", "s", "s", "w", "o", "r", "d">>
  /\ navLinks[3].href # authOut.pathName
  /\ ToLowerCase(navLinks[3].href) = authOut.pathName
  /\ ActiveSet(authOut) = {}

\* C19: every rendered link carries exactly one of the two styles, chosen by
\* its active flag: "font-bold mr-4" when active, "text-blue-500 mr-4" when
\* inactive; never both, never neither.
C19_ExactlyOneStyle ==
  authOut.rendered =>
    \A i \in 1..Len(authOut.links) :
      LET active == \/ authOut.pathName = navLinks[i].href
                    \/ /\ IsPrefixOf(navLinks[i].href, authOut.pathName)
                       /\ navLinks[i].href # <<"/">>
      IN  authOut.links[i].className =
            IF active THEN "font-bold mr-4" ELSE "text-blue-500 mr-4"

C19_Witness ==
  /\ authOut.rendered
  /\ authOut.links[1].className = "text-blue-500 mr-4"
  /\ authOut.links[2].className = "text-blue-500 mr-4"
  /\ authOut.links[3].className = "font-bold mr-4"

\* C20: for every current path the layout renders all three links, in list
\* order, each with its own name and href, followed by the wrapped children:
\* the active flag never hides, reorders or retargets a link.
C20_AllLinksInOrderThenChildren ==
  authOut.rendered =>
    /\ Len(authOut.links) = 3
    /\ \A i \in 1..Len(navLinks) :
         /\ i \in DOMAIN authOut.links
         /\ authOut.links[i].href = navLinks[i].href
         /\ authOut.links[i].text = navLinks[i].name
         /\ authOut.links[i].key = navLinks[i].name
    /\ authOut.children = children

C20_Witness ==
  /\ authOut.rendered
  /\ authOut.pathName = LoginHref
  /\ ActiveSet(authOut) = {2}
  /\ <<authOut.links[1].text, authOut.links[2].text, authOut.links[3].text>>
       = <<"Register", "Login", "Forgot-Password">>
  /\ authOut.children = "RegisterPage"

(***************************************************************************)
(* Determinism of rendering (SpecApp).                                     *)
(***************************************************************************)
\* C7: two renders of the same component with equal inputs (the current path
\* and children for the auth layout, the route parameters for the course and
\* review pages) produce equal output.
C7_RenderingIsDeterministic ==
  /\ (authOut.rendered /\ authSnap.rendered
        /\ authOut.pathName = authSnap.pathName
        /\ authOut.children = authSnap.children)
       => authOut = authSnap
  /\ \A r, q \in Slots :
       (reqs[r].pc \in {"done", "not-found"} /\ reqs[q].pc \in {"done", "not-found"}
          /\ reqs[r].page = reqs[q].page /\ reqs[r].params = reqs[q].params)
         => reqs[r] = reqs[q]

C7_Witness ==
  /\ authOut.rendered /\ authSnap.rendered
  /\ authOut.pathName = LoginHref /\ authSnap.pathName = LoginHref
  /\ authOut = authSnap
  /\ \E r, q \in Slots :
       /\ r # q
       /\ reqs[r].pc = "done" /\ reqs[q].pc = "done"
       /\ reqs[r].page = "review" /\ reqs[q].page = "review"
       /\ reqs[r].params = reqs[q].params
       /\ reqs[r].out = reqs[q].out

(***************************************************************************)
(* Properties of the review and course-details pages (SpecPages).          *)
(***************************************************************************)
Finished(r) == reqs[r].pc \in {"done", "not-found"}

FinishedReview(r) == Finished(r) /\ reqs[r].page = "review"

ShowsBothIds(r) ==
  /\ reqs[r].pc = "done"
  /\ reqs[r].out.tag = "h1"
  /\ reqs[r].out.children[2] = reqs[r].params.reviewId
  /\ reqs[r].out.children[4] = reqs[r].params.courseId

\* C2: a review request whose reviewId, parsed as an integer, is greater
\* than 1000 ends in not-found and renders no review heading.
C2_OverLimitSignalsNotFound ==
  \A r \in Slots :
    (FinishedReview(r) /\ ~ParseInt(reqs[r].params.reviewId).nan
                       /\ ParseInt(reqs[r].params.reviewId).val > 1000)
      => reqs[r].pc = "not-found"

\* C3: a review request whose reviewId is at most 1000 (exactly 1000, zero
\* and negative values included) renders, and the heading shows the supplied
\* reviewId and the supplied courseId, each unchanged.
C3_AtMostLimitRendersBothIds ==
  \A r \in Slots :
    (FinishedReview(r) /\ ~ParseInt(reqs[r].params.reviewId).nan
                       /\ ParseInt(reqs[r].params.reviewId).val <= 1000)
      => ShowsBothIds(r)

C3_Witness ==
  \E r, q \in Slots :
    /\ FinishedReview(r) /\ FinishedReview(q)
    /\ reqs[r].params.reviewId = <<"1", "0", "0", "0">>
    /\ reqs[q].params.reviewId = <<"-", "5">>
    /\ reqs[r].params.courseId # reqs[r].params.reviewId
    /\ ShowsBothIds(r) /\ ShowsBothIds(q)

\* C9: the course-details page echoes the route parameter: whatever courseId
\* the framework supplies, the page renders and its heading holds exactly
\* that courseId, unmodified and unvalidated.
C9_CoursePageEchoesCourseId ==
  \A r \in Slots :
    (Finished(r) /\ reqs[r].page = "course")
      => /\ reqs[r].pc = "done"
         /\ reqs[r].out = [tag |-> "h1",
                           children |-> <<"Course details. COURSE_ID:",
                                          reqs[r].params.courseId>>]

C9_Witness ==
  \E r \in Slots :
    /\ reqs[r].pc = "done" /\ reqs[r].page = "course"
    /\ reqs[r].params.courseId = <<"j", "s">>
    /\ reqs[r].out.children[2] = <<"j", "s">>

\* C10: a reviewId that does not parse as an integer never causes not-found
\* or an error, whatever the courseId: the review page renders; and the
\* courseId never decides whether a review request renders.
C10_NoOtherValidation ==
  /\ \A r \in Slots :
       (FinishedReview(r) /\ ParseInt(reqs[r].params.reviewId).nan)
         => (reqs[r].pc = "done" /\ reqs[r].out.tag = "h1")
  /\ \A r, q \in Slots :
       (FinishedReview(r) /\ FinishedReview(q)
          /\ reqs[r].params.reviewId = reqs[q].params.reviewId)
         => reqs[r].pc = reqs[q].pc
  /\ \A r \in Slots :
       (reqs[r].pc = "awaiting" /\ reqs[r].page = "review") => ENABLED ResumeReviewPage(r)

C10_Witness ==
  \E r, q \in Slots :
    /\ reqs[r].pc = "done" /\ reqs[r].page = "review"
    /\ reqs[q].pc = "done" /\ reqs[q].page = "review"
    /\ reqs[r].params = [courseId |-> <<"1", "0", "0", "1">>, reviewId |-> <<"a", "b", "c">>]
    /\ reqs[q].params = [courseId |-> <<"j", "s">>, reviewId |-> <<"a", "b", "c">>]
    /\ reqs[r].out.tag = "h1" /\ reqs[q].out.tag = "h1"

(***************************************************************************)
(* The await of the asynchronous pages (SpecPages).                        *)
(***************************************************************************)
HasOutput(req) == "out" \in DOMAIN req

\* C12: each asynchronous page awaits its route parameters exactly once and
\* has output only after that await has resolved; the step in which the
\* parameters resolve ends with the render complete.
C12_AwaitOnceThenOutput ==
  /\ [](\A r \in Slots :
          /\ reqs[r].pc # "idle" => reqs[r].awaits = 1
          /\ HasOutput(reqs[r]) => reqs[r].pc = "done")
  /\ [][\A r \in Slots :
          /\ (reqs'[r].pc = "done" /\ reqs[r].pc # "done") => reqs[r].pc = "awaiting"
          /\ (reqs[r].pc = "awaiting" /\ reqs'[r] # reqs[r] /\ reqs'[r].pc # "failed")
               => (reqs'[r].pc = "done" /\ HasOutput(reqs'[r]))]_vars

C12_Witness ==
  \E r, q \in Slots :
    /\ reqs[r].pc = "done" /\ reqs[r].page = "course"
    /\ reqs[q].pc = "done" /\ reqs[q].page = "review"
    /\ reqs[r].awaits = 1 /\ reqs[q].awaits = 1
    /\ HasOutput(reqs[r]) /\ HasOutput(reqs[q])

\* C13: when the awaited route parameters fail, the page has awaited once,
\* produces no output, and the request stays failed: no retry, no fallback.
C13_FailurePropagates ==
  /\ [](\A r \in Slots :
          reqs[r].pc = "failed" => (reqs[r].awaits = 1 /\ ~HasOutput(reqs[r])))
  /\ [][\A r \in Slots : reqs[r].pc = "failed" => reqs'[r] = reqs[r]]_vars
  /\ [][\A r \in Slots :
          (reqs[r].pc = "awaiting" /\ (RejectCoursePage(r) \/ RejectReviewPage(r)))
            => (reqs'[r].pc = "failed" /\ ~HasOutput(reqs'[r]))]_vars

C13_Witness ==
  \E r, q \in Slots :
    /\ reqs[r].pc = "failed" /\ reqs[r].page = "course"
    /\ reqs[q].pc = "failed" /\ reqs[q].page = "review"
    /\ ~HasOutput(reqs[r]) /\ ~HasOutput(reqs[q])

\* what a page renders for these parameters when no other request is around
AloneOutput(req) ==
  IF req.page = "course"
  THEN [tag |-> "h1", children |-> <<"Course details. COURSE_ID:", req.params.courseId>>]
  ELSE [tag |-> "h1",
        children |-> <<"Review: ", req.params.reviewId, " for course: ", req.params.courseId>>]

\* C14: renders of different requests share no state: when a render completes
\* while other requests are in flight or finished, its output is the output of
\* its own parameters alone, and the step changes no other request.
C14_RendersShareNoState ==
  [][\A r \in Slots :
       (reqs[r].pc = "awaiting" /\ reqs'[r].pc = "done")
         => /\ reqs'[r].out = AloneOutput(reqs[r])
            /\ \A q \in Slots \ {r} : reqs'[q] = reqs[q]]_vars

C14_Witness ==
  \E r, q \in Slots :
    /\ reqs[r].pc = "done" /\ reqs[r].page = "review"
    /\ reqs[q].pc = "awaiting" /\ reqs[q].page = "review"
    /\ reqs[r].params # reqs[q].params
    /\ reqs[r].out = AloneOutput(reqs[r])

====
